---------------------------- MODULE Spec2Model ----------------------------
(***************************************************************************)
(* TickTick -> Todoist converter (src/ticktick_to_todoist/converter.py).   *)
(*                                                                         *)
(* A run of TickTickToTodoistConverter.convert is a state machine:         *)
(*   start -> (fallback ->) read -> resolved -> ordered -> chunked         *)
(*         -> (one WriteChunk step per chunk) -> done,                     *)
(* with "error" reached whenever the Python code raises.                   *)
(*                                                                         *)
(* Every CSV field is a text: a sequence of characters.  A character is a  *)
(* string: the ASCII characters stand for themselves, every other          *)
(* character is written by its code point, "U+XXXX".                       *)
(***************************************************************************)
EXTENDS Integers, Sequences, FiniteSets, TLC

VARIABLES
    pc,            \* position in convert()
    file,          \* the input file: header row, decoding outcome, data rows
    tasks,         \* convert's local `tasks`
    indents,       \* convert's local `indents` (an insertion-ordered dict)
    chunks,        \* convert's local `chunks`
    i,             \* index of the chunk loop in convert (0-based, as in the code)
    output_files,  \* convert's local `output_files` (file names, in order)
    disk,          \* the files written so far: name |-> rows
    include_priority, \* self.include_priority
    frames,        \* Python frames on the stack while convert's body runs, its own included
    err            \* the exception that ended the run, "" if none

vars == <<pc, file, tasks, indents, chunks, i, output_files, disk, include_priority, frames, err>>

-----------------------------------------------------------------------------
(* Characters                                                              *)

\* The printable ASCII characters, code points 32..126, in order (the double
\* quote, the backslash and the backtick are written by code point).
AsciiPrintable ==
    << " ", "!", "U+0022", "#", "$", "%", "&", "'", "(", ")", "*", "+", ",", "-", ".", "/",
       "0", "1", "2", "3", "4", "5", "6", "7", "8", "9", ":", ";", "<", "=", ">", "?",
       "@", "A", "B", "C", "D", "E", "F", "G", "H", "I", "J", "K", "L", "M", "N", "O",
       "P", "Q", "R", "S", "T", "U", "V", "W", "X", "Y", "Z", "[", "U+005C", "]", "^", "_",
       "U+0060", "a", "b", "c", "d", "e", "f", "g", "h", "i", "j", "k", "l", "m", "n", "o",
       "p", "q", "r", "s", "t", "u", "v", "w", "x", "y", "z", "{", "|", "}", "~" >>

\* The other characters of the model, with their code points.
OtherChars ==
    { <<"U+0009", 9>>,      \* tab
      <<"U+000A", 10>>,     \* newline
      <<"U+000D", 13>>,     \* carriage return
      <<"U+00C5", 197>>,    \* A with ring (Nordic, upper case)
      <<"U+00E5", 229>>,    \* a with ring (Nordic, lower case)
      <<"U+00C9", 201>>,    \* E acute (a letter outside the Nordic list, upper case)
      <<"U+00E9", 233>>,    \* e acute (a letter outside the Nordic list)
      <<"U+2013", 8211>>,   \* en dash
      <<"U+2014", 8212>>,   \* em dash
      <<"U+201C", 8220>>,   \* left double quotation mark
      <<"U+2026", 8230>>,   \* horizontal ellipsis
      <<"U+200B", 8203>>,   \* zero-width space
      <<"U+200C", 8204>>,   \* zero-width non-joiner
      <<"U+200D", 8205>>,   \* zero-width joiner
      <<"U+FEFF", 65279>>,  \* byte order mark
      <<"U+1F389", 127881>> \* an emoji
    }

Alphabet == {AsciiPrintable[k] : k \in DOMAIN AsciiPrintable} \cup {p[1] : p \in OtherChars}

\* ord(char)
OrdTable ==
    [c \in Alphabet |->
        IF \E k \in DOMAIN AsciiPrintable : AsciiPrintable[k] = c
        THEN 31 + (CHOOSE k \in DOMAIN AsciiPrintable : AsciiPrintable[k] = c)
        ELSE (CHOOSE p \in OtherChars : p[1] = c)[2]]

ord(c) == OrdTable[c]

\* chr(code), for the code points of the alphabet
chr(n) == CHOOSE c \in Alphabet : OrdTable[c] = n

\* char in the Nordic list ae, o-slash, a-ring (both cases), by code point
IsNordic(c) == ord(c) \in {230, 248, 229, 198, 216, 197}

\* str.isspace on the alphabet: space, tab, newline, carriage return
IsSpace(c) == ord(c) \in {32, 9, 10, 13}

\* str.isalnum on the alphabet: ASCII digits and letters, Latin-1 letters
IsAlnum(c) ==
    LET n == ord(c)
    IN \/ n \in 48..57 \/ n \in 65..90 \/ n \in 97..122
       \/ n \in 192..214 \/ n \in 216..246 \/ n \in 248..255

\* str.lower on one character of the alphabet
LowerChar(c) ==
    LET n == ord(c)
    IN IF n \in 65..90 \/ n \in 192..214 \/ n \in 216..222 THEN chr(n + 32) ELSE c

-----------------------------------------------------------------------------
(* Texts: Python str operations on sequences of characters                 *)

\* "".join(c for c in text if Keep(c))
Filter(text, Keep(_)) == SelectSeq(text, Keep)

\* text.strip(chars): drop the leading and trailing characters that are in chars
strip_chars(text, chars) ==
    LET kept == {k \in DOMAIN text : text[k] \notin chars}
    IN IF kept = {} THEN <<>>
       ELSE SubSeq(text,
                   CHOOSE k \in kept : \A m \in kept : k <= m,
                   CHOOSE k \in kept : \A m \in kept : k >= m)

\* str.strip(): drop leading and trailing whitespace
strip(text) == strip_chars(text, {c \in Alphabet : IsSpace(c)})

\* text.startswith(old), old non-empty
StartsWith(text, old) ==
    Len(text) >= Len(old) /\ SubSeq(text, 1, Len(old)) = old

\* old in text
RECURSIVE Contains(_, _)
Contains(text, old) ==
    IF Len(text) < Len(old) THEN FALSE
    ELSE StartsWith(text, old) \/ Contains(Tail(text), old)

\* text.replace(old, new): every non-overlapping occurrence, left to right
RECURSIVE replace(_, _, _)
replace(text, old, new) ==
    IF text = <<>> THEN <<>>
    ELSE IF StartsWith(text, old)
         THEN new \o replace(SubSeq(text, Len(old) + 1, Len(text)), old, new)
         ELSE <<Head(text)>> \o replace(Tail(text), old, new)

\* text.split(sep), sep one character: the fields between the separators
RECURSIVE split_on(_, _, _)
split_on(text, sep, cur) ==
    IF text = <<>> THEN <<cur>>
    ELSE IF Head(text) = sep
         THEN <<cur>> \o split_on(Tail(text), sep, <<>>)
         ELSE split_on(Tail(text), sep, Append(cur, Head(text)))

split_sep(text, sep) == split_on(text, sep, <<>>)

\* text.split(): the maximal runs of non-whitespace characters
RECURSIVE split_ws(_, _)
split_ws(text, cur) ==
    IF text = <<>> THEN (IF cur = <<>> THEN <<>> ELSE <<cur>>)
    ELSE IF IsSpace(Head(text))
         THEN (IF cur = <<>> THEN <<>> ELSE <<cur>>) \o split_ws(Tail(text), <<>>)
         ELSE split_ws(Tail(text), Append(cur, Head(text)))

split(text) == split_ws(text, <<>>)

\* sep.join(parts)
RECURSIVE join(_, _)
join(sep, parts) ==
    IF parts = <<>> THEN <<>>
    ELSE IF Len(parts) = 1 THEN parts[1]
    ELSE parts[1] \o sep \o join(sep, Tail(parts))

\* str.lower()
lower(text) == [k \in DOMAIN text |-> LowerChar(text[k])]

\* str(n) of an int
RECURSIVE str(_)
str(n) ==
    IF n < 0 THEN <<"-">> \o str(0 - n)
    ELSE IF n < 10 THEN <<chr(48 + n)>>
    ELSE str(n \div 10) \o <<chr(48 + (n % 10))>>

\* int(text) of a str: white space around the literal is dropped, one sign
\* may lead, and the rest must be decimal digits, where single underscores
\* may stand between digits.  Any other text raises ValueError("invalid
\* literal for int() with base 10"): the result then has raises = TRUE and no
\* value.
int(text) ==
    LET stripped == strip(text)
        signed   == stripped # <<>> /\ Head(stripped) \in {"+", "-"}
        body     == IF signed THEN Tail(stripped) ELSE stripped
        IsDigit(c) == c \in {"0", "1", "2", "3", "4", "5", "6", "7", "8", "9"}
        literal  ==
            /\ body # <<>>
            /\ \A k \in DOMAIN body : IsDigit(body[k]) \/ body[k] = "_"
            /\ IsDigit(body[1])
            /\ IsDigit(body[Len(body)])
            /\ \A k \in 1..(Len(body) - 1) : ~(body[k] = "_" /\ body[k + 1] = "_")
        digits   == SelectSeq(body, IsDigit)
        RECURSIVE value_of(_, _)
        value_of(rest, acc) ==
            IF rest = <<>> THEN acc
            ELSE value_of(Tail(rest), 10 * acc + (ord(Head(rest)) - 48))
        magnitude == value_of(digits, 0)
    IN IF ~literal THEN [raises |-> TRUE]
       ELSE [raises |-> FALSE,
             value  |-> IF signed /\ Head(stripped) = "-" THEN 0 - magnitude ELSE magnitude]

-----------------------------------------------------------------------------
(* Text Sanitizer and Label Synthesizer                                    *)

\* The key of the third entry of the replacement table: the source writes the
\* two apostrophe entries with three quote characters, which Python reads as
\* one triple-quoted key running from line 43 to line 44.
TripleQuotedKey ==
        << ":", " ", "U+0022", "'", "U+0022", ",", " ", " ", " ", " ", " ", " ", " ",
           " ", "#", " ", "S", "m", "a", "r", "t", " ", "a", "p", "o", "s", "t", "r",
           "o", "p", "h", "e", "s", "U+000A", " ", " ", " ", " ", " ", " ", " ", " ",
           " ", " ", " ", " " >>

\* clean_text's `replacements`, in the dict's order: <<old, new>>
replacements ==
    << << <<"U+0022">>, <<"U+0022">> >>,
       << TripleQuotedKey, <<"'">> >>,
       << <<"U+2013">>, <<"-">> >>,
       << <<"U+2014">>, <<"-">> >>,
       << <<"U+2026">>, <<".", ".", ".">> >>,
       << <<"U+200B">>, <<>> >>,
       << <<"U+200C">>, <<>> >>,
       << <<"U+200D">>, <<>> >>,
       << <<"U+FEFF">>, <<>> >>,
       << <<"U+000D">>, <<"U+000A">> >>,
       << <<"U+0009">>, <<" ">> >> >>

\* for old, new in replacements.items(): text = text.replace(old, new)
RECURSIVE apply_replacements(_, _)
apply_replacements(text, k) ==
    IF k > Len(replacements) THEN text
    ELSE apply_replacements(replace(text, replacements[k][1], replacements[k][2]), k + 1)

\* the character test of clean_text's filter loop
KeepInText(c) == (32 <= ord(c) /\ ord(c) <= 126) \/ c = "U+000A" \/ IsNordic(c)

clean_text(text) ==
    IF text = <<>> THEN <<>>
    ELSE LET stripped == strip(text)
             replaced == apply_replacements(stripped, 1)
             cleaned  == Filter(replaced, KeepInText)
         IN join(<<" ">>, split(cleaned))

\* the character test of clean_label_name's filter
KeepInLabel(c) == IsAlnum(c) \/ c = "_" \/ IsNordic(c)

\* while '__' in cleaned: cleaned = cleaned.replace('__', '_')
RECURSIVE collapse_underscores(_)
collapse_underscores(cleaned) ==
    IF Contains(cleaned, <<"_", "_">>)
    THEN collapse_underscores(replace(cleaned, <<"_", "_">>, <<"_">>))
    ELSE cleaned

clean_label_name(name) ==
    IF name = <<>> THEN <<>>
    ELSE LET underscored == replace(replace(name, <<" ">>, <<"_">>), <<"-">>, <<"_">>)
             kept        == Filter(underscored, KeepInLabel)
             collapsed   == collapse_underscores(kept)
         IN lower(strip_chars(collapsed, {"_"}))

-----------------------------------------------------------------------------
(* Rows                                                                    *)

\* A source row is a list of 24 texts, a destination row a list of 12 texts.
TICKTICK_HEADER ==
    << "Folder Name", "List Name", "Title", "Kind", "Tags", "Content",
       "Is Check list", "Start Date", "Due Date", "Reminder", "Repeat",
       "Priority", "Status", "Created Time", "Completed Time", "Order",
       "Timezone", "Is All Day", "Is Floating", "Column Name",
       "Column Order", "View Mode", "taskId", "parentId" >>

TODOIST_HEADER ==
    << "TYPE", "CONTENT", "DESCRIPTION", "PRIORITY", "INDENT", "AUTHOR",
       "RESPONSIBLE", "DATE", "DATE_LANG", "TIMEZONE", "DURATION", "DURATION_UNIT" >>

\* PRIORITY_MAP.get(code, 4)
PRIORITY_MAP(code) ==
    CASE code = 0 -> 4
      [] code = 5 -> 3
      [] code = 3 -> 2
      [] code = 1 -> 1
      [] OTHER -> 4

TASKS_PER_PROJECT == 300

\* row[n], with Python's 0-based index
at(row, n) == row[n + 1]

\* row[n] = value on a copy of the row
with(row, n, value) == [row EXCEPT ![n + 1] = value]

\* The column of a destination row that TODOIST_HEADER names
col(row, name) == row[CHOOSE k \in DOMAIN TODOIST_HEADER : TODOIST_HEADER[k] = name]

\* Python's truth value of a list, a str or None
truthy(x) == x # <<>>

\* Python's None (only ever tested for truth)
None == <<>>

min(a, b) == IF a <= b THEN a ELSE b

\* ceil(n / d) for the list lengths of the model
ceil_div(n, d) == (n + d - 1) \div d

-----------------------------------------------------------------------------
(* Insertion-ordered dicts                                                 *)

EmptyDict == [keys |-> <<>>, val |-> <<>>]

\* k in d
dict_has(d, k) == k \in DOMAIN d.val

\* d[k] = v: a new key goes last, a known key keeps its place
dict_set(d, k, v) ==
    IF dict_has(d, k)
    THEN [d EXCEPT !.val[k] = v]
    ELSE [keys |-> Append(d.keys, k), val |-> (k :> v) @@ d.val]

\* d[k]
dict_get(d, k) == d.val[k]

-----------------------------------------------------------------------------
(* Hierarchy Resolver: calculate_indents                                   *)

\* One pass of `for task in tasks` (lines 128-137) on the rows lo..hi.  The
\* rows are taken in order: the first half is finished (the comparison forces
\* its value) before the second half starts.
RECURSIVE scan_tasks(_, _, _, _)
scan_tasks(rows, lo, hi, acc) ==
    IF lo > hi THEN acc
    ELSE IF lo = hi
    THEN LET task_id   == at(rows[lo], 22)
             parent_id == at(rows[lo], 23)
         IN IF ~truthy(parent_id)
            THEN [acc EXCEPT !.root_tasks = Append(@, task_id)]
            ELSE [acc EXCEPT !.child_tasks =
                     IF dict_has(@, parent_id)
                     THEN dict_set(@, parent_id, Append(dict_get(@, parent_id), task_id))
                     ELSE dict_set(@, parent_id, <<task_id>>)]
    ELSE LET mid   == (lo + hi) \div 2
             first == scan_tasks(rows, lo, mid, acc)
         IN IF first = first THEN scan_tasks(rows, mid + 1, hi, first) ELSE first

\* sys.getrecursionlimit() of CPython, which the repository does not change.
\* Every Python frame counts towards it, and so does the comparison that a
\* frame has under way.
RecursionLimit == 1000

\* The calls of set_indent_level (lines 140-144) that are under way, the
\* outermost first: each with its task_id, its level and `next`, the position
\* in child_tasks[task_id] of the child its loop takes next (0: the body has
\* not started).  One step of the innermost call:
\*   - its body starts: with stack_frames frames below calculate_indents, one
\*     for calculate_indents, one per call under way and one comparison, the
\*     recursion limit is reached and RecursionError is raised; otherwise
\*     indents[task_id] = min(level, 4);
\*   - its loop calls set_indent_level(child_id, level + 1);
\*   - it returns.
set_indent_level_step(child_tasks, stack_frames, m) ==
    IF m.raises \/ m.calls = <<>> THEN m
    ELSE LET d   == Len(m.calls)
             top == m.calls[d]
         IN IF top.next = 0
            THEN IF stack_frames + 1 + d + 1 >= RecursionLimit
                 THEN [m EXCEPT !.raises = TRUE]
                 ELSE [m EXCEPT !.indents = dict_set(@, top.task_id, min(top.level, 4)),
                                !.calls[d].next = 1]
            ELSE LET children == IF dict_has(child_tasks, top.task_id)
                                 THEN dict_get(child_tasks, top.task_id)
                                 ELSE <<>>
                 IN IF top.next > Len(children)
                    THEN [m EXCEPT !.calls = SubSeq(@, 1, d - 1)]
                    ELSE [m EXCEPT !.calls =
                             Append([@ EXCEPT ![d].next = top.next + 1],
                                    [task_id |-> children[top.next],
                                     level   |-> top.level + 1,
                                     next    |-> 0])]

\* n steps, in order: the first half is finished (the comparison forces its
\* value) before the second half starts.
RECURSIVE set_indent_level_steps(_, _, _, _)
set_indent_level_steps(child_tasks, stack_frames, m, n) ==
    IF n = 0 \/ m.raises \/ m.calls = <<>> THEN m
    ELSE IF n = 1 THEN set_indent_level_step(child_tasks, stack_frames, m)
    ELSE LET first == set_indent_level_steps(child_tasks, stack_frames, m, n \div 2)
         IN IF first = first
            THEN set_indent_level_steps(child_tasks, stack_frames, first, n - (n \div 2))
            ELSE first

\* Steps until the outermost call has returned or RecursionError is raised
RECURSIVE set_indent_level_run(_, _, _, _)
set_indent_level_run(child_tasks, stack_frames, m, n) ==
    LET after == set_indent_level_steps(child_tasks, stack_frames, m, n)
    IN IF after.raises \/ after.calls = <<>> THEN after
       ELSE set_indent_level_run(child_tasks, stack_frames, after, 2 * n)

\* set_indent_level(task_id, level) called by the loop over root_tasks: the
\* indents after it, or raises = TRUE when it raises RecursionError.
set_indent_level(child_tasks, stack_frames, indents0, task_id, level) ==
    LET m == set_indent_level_run(child_tasks, stack_frames,
                 [indents |-> indents0,
                  calls   |-> <<[task_id |-> task_id, level |-> level, next |-> 0]>>,
                  raises  |-> FALSE],
                 2)
    IN IF m.raises THEN [raises |-> TRUE] ELSE [raises |-> FALSE, value |-> m.indents]

\* `for task_id in root_tasks: set_indent_level(task_id, 1)` (lines 147-148) on
\* ids[lo..hi], in order; a RecursionError leaves the loop.
RECURSIVE visit_all(_, _, _, _, _, _)
visit_all(child_tasks, stack_frames, indents0, ids, lo, hi) ==
    IF lo > hi THEN [raises |-> FALSE, value |-> indents0]
    ELSE IF lo = hi THEN set_indent_level(child_tasks, stack_frames, indents0, ids[lo], 1)
    ELSE LET mid   == (lo + hi) \div 2
             first == visit_all(child_tasks, stack_frames, indents0, ids, lo, mid)
         IN IF first = first
            THEN IF first.raises THEN first
                 ELSE visit_all(child_tasks, stack_frames, first.value, ids, mid + 1, hi)
            ELSE first

\* The dict `indents` that calculate_indents returns, or raises = TRUE when a
\* RecursionError leaves it.
calculate_indents(rows, stack_frames) ==
    LET scanned == scan_tasks(rows, 1, Len(rows),
                              [root_tasks |-> <<>>, child_tasks |-> EmptyDict])
    IN visit_all(scanned.child_tasks, stack_frames, EmptyDict,
                 scanned.root_tasks, 1, Len(scanned.root_tasks))

-----------------------------------------------------------------------------
(* ORDER: tasks.sort(key=lambda x: task_ids.index(x[22]))                  *)

\* x in seq
in_list(seq, x) == \E k \in DOMAIN seq : seq[k] = x

\* seq.index(x), 0-based, for x in seq
index(seq, x) ==
    LET hits == {k \in DOMAIN seq : seq[k] = x}
    IN (CHOOSE k \in hits : \A m \in hits : k <= m) - 1

\* list.index raises ValueError for a task whose id is no key of indents
sort_raises(rows, task_ids) ==
    \E k \in DOMAIN rows : ~in_list(task_ids, at(rows[k], 22))

\* list.sort is stable: a row goes after the rows of smaller key and after
\* the earlier rows of equal key.  The keys are computed once per row, as
\* list.sort does (Tail(<<0>> \o f) is the list f with its elements evaluated).
sort_by_index(rows, task_ids) ==
    LET n    == Len(rows)
        key  == Tail(<<0>> \o [k \in 1..n |-> index(task_ids, at(rows[k], 22))])
        rank == Tail(<<0>> \o [k \in 1..n |->
                    Cardinality({j \in 1..n : key[j] < key[k] \/ (key[j] = key[k] /\ j < k)})])
        from == [r \in 0..(n - 1) |-> CHOOSE k \in 1..n : rank[k] = r]
    IN [p \in 1..n |-> rows[from[p - 1]]]

-----------------------------------------------------------------------------
(* Chunker: process_chunk, split_tasks_into_chunks                         *)

\* f"part_{chunk_number}_of_{total_chunks}"
part_tag(chunk_number, total_chunks) ==
    <<"p", "a", "r", "t", "_">> \o str(chunk_number) \o <<"_", "o", "f", "_">> \o str(total_chunks)

\* process_task that sets the chunk tag outright, dropping the tags there are
process_task_overwrites(task, chunk_number, total_chunks) ==
    IF total_chunks > 1
    THEN with(task, 4, part_tag(chunk_number, total_chunks))
    ELSE task

process_task(task, chunk_number, total_chunks) ==
    IF total_chunks > 1
    THEN IF truthy(at(task, 4))
         THEN with(task, 4, at(task, 4) \o <<",">> \o part_tag(chunk_number, total_chunks))
         ELSE with(task, 4, part_tag(chunk_number, total_chunks))
    ELSE task

process_chunk(rows, chunk_number, total_chunks) ==
    [k \in 1..Len(rows) |-> process_task(rows[k], chunk_number, total_chunks)]

\* split_tasks_into_chunks with the number of chunks rounded down
split_tasks_rounded_down(rows) ==
    IF Len(rows) <= TASKS_PER_PROJECT
    THEN <<rows>>
    ELSE LET num_chunks == Len(rows) \div TASKS_PER_PROJECT
         IN [c \in 1..num_chunks |->
                LET start_idx == (c - 1) * TASKS_PER_PROJECT
                    end_idx   == min(c * TASKS_PER_PROJECT, Len(rows))
                IN process_chunk(SubSeq(rows, start_idx + 1, end_idx), c, num_chunks)]

split_tasks_into_chunks(rows) ==
    IF Len(rows) <= TASKS_PER_PROJECT
    THEN <<rows>>
    ELSE LET num_chunks == ceil_div(Len(rows), TASKS_PER_PROJECT)
         IN [c \in 1..num_chunks |->
                LET start_idx == (c - 1) * TASKS_PER_PROJECT
                    end_idx   == min(c * TASKS_PER_PROJECT, Len(rows))
                IN process_chunk(SubSeq(rows, start_idx + 1, end_idx), c, num_chunks)]

-----------------------------------------------------------------------------
(* Record Transformer: create_todoist_task, create_note_row                *)

\* labels.extend(clean_label_name(tag.strip()) for tag in task[4].split(','))
tag_labels(tags) ==
    LET parts == split_sep(tags, ",")
    IN [k \in 1..Len(parts) |-> clean_label_name(strip(parts[k]))]

\* ' '.join(f'@{label}' for label in labels)
at_labels(labels) == join(<<" ">>, [k \in 1..Len(labels) |-> <<"@">> \o labels[k]])

\* The list `labels` of create_todoist_task (lines 181-195)
collect_labels(task) ==
    LET list_name   == at(task, 1)
        folder_name == at(task, 0)
        status      == at(task, 12)
    IN (IF truthy(list_name) THEN << <<"l", "i", "s", "t", "_">> \o clean_label_name(list_name) >> ELSE <<>>)
       \o (IF truthy(folder_name) THEN << <<"f", "o", "l", "d", "e", "r", "_">> \o clean_label_name(folder_name) >> ELSE <<>>)
       \o (IF status = <<"2">> THEN << <<"c", "o", "m", "p", "l", "e", "t", "e", "d">> >> ELSE <<>>)
       \o (IF truthy(at(task, 4)) THEN tag_labels(at(task, 4)) ELSE <<>>)

\* A DESCRIPTION left empty
task_description_empty(task) == <<>>

\* content = self.clean_text(task[5]) (line 169), the DESCRIPTION of the row (line 208)
task_description(task) == clean_text(at(task, 5))

\* The result is the row, or [] for a record without a title; when
\* int(task[11]) raises (line 203) the call raises ValueError and returns
\* nothing: raises = TRUE.  The title is tested first (line 172), and int is
\* not called when include_priority is off.
create_todoist_task(self_include_priority, task, indent) ==
    LET title   == clean_text(at(task, 2))
        content == task_description(task)
    IN IF ~truthy(title) THEN [raises |-> FALSE, value |-> <<>>]
       ELSE LET due_date     == at(task, 8)
                labels       == collect_labels(task)
                task_content == IF truthy(labels)
                                THEN title \o <<" ">> \o at_labels(labels)
                                ELSE title
                code         == int(at(task, 11))
                priority     == IF self_include_priority
                                THEN str(PRIORITY_MAP(code.value))
                                ELSE <<"4">>
            IN IF self_include_priority /\ code.raises THEN [raises |-> TRUE]
               ELSE [raises |-> FALSE,
                     value  |->
                        << <<"t", "a", "s", "k">>,         \* TYPE
                           task_content,   \* CONTENT
                           content,        \* DESCRIPTION
                           priority,       \* PRIORITY
                           str(indent),    \* INDENT
                           <<>>,           \* AUTHOR
                           <<>>,           \* RESPONSIBLE
                           due_date,       \* DATE
                           <<"e", "n">>,   \* DATE_LANG
                           <<"U", "T", "C">>,       \* TIMEZONE
                           <<>>,           \* DURATION
                           <<"N", "o", "n", "e">>   \* DURATION_UNIT
                        >>]

\* A validate_csv_row whose round trip succeeds
validate_csv_row_accepts(row) == TRUE

\* csv.writer(output) is handed a list.  A list has no write method, so
\* csv.writer raises TypeError for every row, and `except Exception` returns
\* False.
validate_csv_row(row) == FALSE

create_note_row(content) ==
    LET cleaned_content == clean_text(content)
        row == << <<"n", "o", "t", "e">>,          \* TYPE
                  cleaned_content, \* CONTENT
                  <<>>, <<>>, <<>>, <<>>, <<>>, <<>>,
                  <<"e", "n">>,    \* DATE_LANG
                  <<"U", "T", "C">>,       \* TIMEZONE
                  <<>>,            \* DURATION
                  <<"N", "o", "n", "e">>   \* DURATION_UNIT
               >>
    IN IF ~validate_csv_row(row) THEN None ELSE row

\* The body of `for task in chunk` (lines 306-316) on the rows lo..hi of the
\* chunk, in order, appending to todoist_tasks.  A ValueError raised by
\* create_todoist_task (line 308) leaves the loop: raises = TRUE.
RECURSIVE transform_chunk(_, _, _, _, _, _)
transform_chunk(self_include_priority, chunk, lo, hi, indents0, todoist_tasks) ==
    IF lo > hi THEN [raises |-> FALSE, value |-> todoist_tasks]
    ELSE IF lo = hi
    THEN LET task         == chunk[lo]
             todoist_task == create_todoist_task(self_include_priority, task,
                                                 dict_get(indents0, at(task, 22)))
         IN IF todoist_task.raises THEN [raises |-> TRUE]
            ELSE LET with_task == IF truthy(todoist_task.value)
                                  THEN Append(todoist_tasks, todoist_task.value)
                                  ELSE todoist_tasks
                 IN [raises |-> FALSE,
                     value  |->
                        IF truthy(at(task, 5))
                        THEN LET note_row == create_note_row(at(task, 5))
                             IN IF truthy(note_row) THEN Append(with_task, note_row)
                                ELSE with_task
                        ELSE with_task]
    ELSE LET mid   == (lo + hi) \div 2
             first == transform_chunk(self_include_priority, chunk, lo, mid, indents0, todoist_tasks)
         IN IF first.raises THEN first
            ELSE IF first = first
            THEN transform_chunk(self_include_priority, chunk, mid + 1, hi, indents0, first.value)
            ELSE first

\* f"todoist_import{suffix}.csv" with suffix f"_part{i+1}" or ""
output_name(idx, n_chunks) ==
    LET suffix == IF n_chunks > 1 THEN <<"_", "p", "a", "r", "t">> \o str(idx + 1) ELSE <<>>
    IN <<"t", "o", "d", "o", "i", "s", "t", "_", "i", "m", "p", "o", "r", "t">> \o suffix \o <<".", "c", "s", "v">>

-----------------------------------------------------------------------------
(* Pipeline Orchestrator: read_ticktick_csv and convert, step by step      *)

\* read_ticktick_csv, the utf-8-sig attempt (lines 93-106).  The file's
\* decode_error names the statement at which the stream reader raises
\* UnicodeDecodeError: "preamble" (next(f), line 98: an invalid byte in the
\* metadata lines), "header" (next(reader), line 101: an invalid byte in the
\* header line or in the bytes the reader decodes ahead together with it,
\* which reach a few hundred bytes into the records), "body" (list(reader),
\* line 106: an invalid byte further on) or "none".  Only in the last two
\* cases is the header compared before the error.
ReadUtf8 ==
    /\ pc = "start"
    /\ IF file.decode_error \in {"preamble", "header"}
       THEN /\ pc' = "fallback"
            /\ UNCHANGED <<tasks, err>>
       ELSE IF file.header # TICKTICK_HEADER
       THEN /\ pc' = "error"
            /\ err' = "ValueError: Invalid CSV file"
            /\ UNCHANGED tasks
       ELSE IF file.decode_error = "body"
       THEN /\ pc' = "fallback"
            /\ UNCHANGED <<tasks, err>>
       ELSE /\ pc' = "read"
            /\ tasks' = file.rows
            /\ UNCHANGED err
    /\ UNCHANGED <<file, indents, chunks, i, output_files, disk, include_priority, frames>>

\* The iso-8859-1 attempt without its header comparison
ReadLatin1_unchecked ==
    /\ pc = "fallback"
    /\ pc' = "read"
    /\ tasks' = file.rows
    /\ UNCHANGED <<file, indents, chunks, i, output_files, disk, include_priority, frames, err>>

\* read_ticktick_csv, the iso-8859-1 attempt after UnicodeDecodeError (lines
\* 107-119): every byte decodes; the header error is raised again by line 119.
ReadLatin1 ==
    /\ pc = "fallback"
    /\ IF file.header # TICKTICK_HEADER
       THEN /\ pc' = "error"
            /\ err' = "ValueError: Could not read file"
            /\ UNCHANGED tasks
       ELSE /\ pc' = "read"
            /\ tasks' = file.rows
            /\ UNCHANGED err
    /\ UNCHANGED <<file, indents, chunks, i, output_files, disk, include_priority, frames>>

\* indents = self.calculate_indents(tasks)   (line 288).  A RecursionError
\* raised in set_indent_level ends convert.
ResolveHierarchy ==
    /\ pc = "read"
    /\ \E result \in {calculate_indents(tasks, frames)} :
          IF result.raises
          THEN /\ pc' = "error"
               /\ err' = "RecursionError: maximum recursion depth exceeded"
               /\ UNCHANGED indents
          ELSE /\ indents' = result.value
               /\ pc' = "resolved"
               /\ UNCHANGED err
    /\ UNCHANGED <<file, tasks, chunks, i, output_files, disk, include_priority, frames>>

\* task_ids = list(indents.keys()); tasks.sort(...)   (lines 291-292)
OrderTasks ==
    /\ pc = "resolved"
    /\ LET task_ids == indents.keys
       IN IF sort_raises(tasks, task_ids)
          THEN /\ pc' = "error"
               /\ err' = "ValueError: not in list"
               /\ UNCHANGED tasks
          ELSE /\ pc' = "ordered"
               /\ tasks' = sort_by_index(tasks, task_ids)
               /\ UNCHANGED err
    /\ UNCHANGED <<file, indents, chunks, i, output_files, disk, include_priority, frames>>

\* chunks = self.split_tasks_into_chunks(tasks); output_files = []   (lines 295-296)
SplitChunks ==
    /\ pc = "ordered"
    /\ chunks' = split_tasks_into_chunks(tasks)
    /\ i' = 0
    /\ output_files' = <<>>
    /\ pc' = "chunked"
    /\ UNCHANGED <<file, tasks, indents, disk, include_priority, frames, err>>

\* One turn of `for i, chunk in enumerate(chunks)` (lines 299-326).  The file
\* is written after the rows of the whole chunk are built: a ValueError from
\* line 308 ends convert with the files of the earlier chunks on disk and
\* none for this chunk.  todoist_tasks is the one result of the inner loop.
WriteChunk ==
    /\ pc = "chunked"
    /\ i < Len(chunks)
    /\ \E todoist_tasks \in {transform_chunk(include_priority, chunks[i + 1], 1,
                                              Len(chunks[i + 1]), indents, <<TODOIST_HEADER>>)} :
          LET output_file == output_name(i, Len(chunks))
          IN IF todoist_tasks.raises
             THEN /\ pc' = "error"
                  /\ err' = "ValueError: invalid literal for int()"
                  /\ UNCHANGED <<i, output_files, disk>>
             ELSE /\ disk' = (output_file :> todoist_tasks.value) @@ disk
                  /\ output_files' = Append(output_files, output_file)
                  /\ i' = i + 1
                  /\ UNCHANGED <<pc, err>>
    /\ UNCHANGED <<file, tasks, indents, chunks, include_priority, frames>>

\* return output_files   (line 328)
Return ==
    /\ pc = "chunked"
    /\ i = Len(chunks)
    /\ pc' = "done"
    /\ UNCHANGED <<file, tasks, indents, chunks, i, output_files, disk, include_priority, frames, err>>

Next ==
    \/ ReadUtf8
    \/ ReadLatin1
    \/ ResolveHierarchy
    \/ OrderTasks
    \/ SplitChunks
    \/ WriteChunk
    \/ Return

-----------------------------------------------------------------------------
(* Inputs                                                                  *)

MaxTasks == 3    \* records of a small input
MaxChunks == 2   \* chunks of a large input

\* The text fields of one record that the converter reads
Plain ==
    [folder |-> <<>>, list |-> <<>>, title |-> <<"B", "u", "y", " ", "m", "i", "l", "k", " ">>, tags |-> <<>>,
     content |-> <<>>, due |-> <<>>, priority |-> <<"0">>, status |-> <<"0">>]

Profiles ==
    { \* a title of white space, with a description
      [Plain EXCEPT !.title = <<" ", "U+0009">>, !.content = <<"a", " ", " ", "b">>],
      \* a title that is one emoji, no description
      [Plain EXCEPT !.title = <<"U+1F389">>],
      \* a description to sanitize
      [Plain EXCEPT !.title = <<"C", "a", "l", "l">>, !.content = <<"U+2026", "o", "k", "U+0009", "!">>, !.priority = <<"1">>],
      \* tags, one of them empty
      [Plain EXCEPT !.title = <<"P", "a", "y">>, !.tags = <<"a", ",", ",", "B", " ", "c">>, !.priority = <<"3">>],
      \* a tag with no label character
      [Plain EXCEPT !.title = <<"P", "a", "y">>, !.tags = <<"!">>, !.priority = <<"7">>],
      \* folder, list, completed status, tag, date
      [folder |-> <<"M", "y", "-", "F", "o", "l", "d", "e", "r">>, list |-> <<"I", "n", " ", "b", "o", "x">>, title |-> <<"F", "i", "x", "_", "i", "t">>, tags |-> <<"W", "o", "r", "k">>,
       content |-> <<>>, due |-> <<"2", "0", "2", "4", "-", "0", "1", "-", "0", "1">>, priority |-> <<"5">>, status |-> <<"2">>],
      \* a list name with no label character
      [Plain EXCEPT !.list = <<"!", "?">>, !.title = <<"U+2014", "X">>],
      \* a Priority column that is empty, is not a number, is a number in
      \* white space, is negative
      [Plain EXCEPT !.priority = <<>>],
      [Plain EXCEPT !.priority = <<"h", "i", "g", "h">>],
      [Plain EXCEPT !.priority = <<" ", "5">>],
      [Plain EXCEPT !.priority = <<"-", "1">>],
      \* no title and no number
      [Plain EXCEPT !.title = <<" ">>, !.priority = <<"1", ".", "0">>] }

\* One source row: the 24 columns of TICKTICK_HEADER
make_task(p, task_id, parent_id) ==
    << p.folder, p.list, p.title, <<>>, p.tags, p.content,
       <<>>, <<>>, p.due, <<>>, <<>>,
       p.priority, p.status, <<>>, <<>>, <<>>,
       <<>>, <<>>, <<>>, <<>>,
       <<>>, <<>>, task_id, parent_id >>

\* A parentId that is no record's taskId
UnknownId == <<"x">>

\* The parent links of m records: par[k] is 0 (no parent), m + 1 (UnknownId)
\* or the position of the parent record, which may come before or after k.
RECURSIVE leaves_forest(_, _, _, _)
leaves_forest(par, m, k, steps) ==
    IF k \notin 1..m THEN TRUE
    ELSE IF steps = 0 THEN FALSE
    ELSE leaves_forest(par, m, par[k], steps - 1)

Forests(m) ==
    {par \in [1..m -> 0..(m + 1)] : \A k \in 1..m : leaves_forest(par, m, k, m)}

\* pad plain root records, then m records linked by par; the record at
\* position `special` of the m (if any) has the text fields of `profile`.
input_rows(pad, m, par, special, profile) ==
    [k \in 1..(pad + m) |->
        IF k <= pad
        THEN make_task(Plain, str(k), <<>>)
        ELSE LET j == k - pad
             IN make_task(IF j = special THEN profile ELSE Plain,
                          str(k),
                          IF par[j] = 0 THEN <<>>
                          ELSE IF par[j] = m + 1 THEN UnknownId
                          ELSE str(pad + par[j]))]

\* A record with a title of white space and a description
Blank == [Plain EXCEPT !.title = <<" ", "U+0009">>, !.content = <<"a", " ", " ", "b">>]

\* Large inputs: plain roots up to a multiple of TASKS_PER_PROJECT or one
\* short of it, then a tail: nothing, a root, a root with tags, a root and its
\* child, a Blank root and its child, or a root with an empty Priority.
PadCounts ==
    {c * TASKS_PER_PROJECT - d : c \in 1..MaxChunks, d \in {0, 1}}

Tails ==
    { <<0, <<>>, 0, Plain>>,
      <<1, <<0>>, 0, Plain>>,
      <<1, <<0>>, 1, [Plain EXCEPT !.tags = <<"a", ",", ",", "B", " ", "c">>]>>,
      <<2, <<0, 1>>, 0, Plain>>,
      <<2, <<0, 1>>, 1, Blank>>,
      <<1, <<0>>, 1, [Plain EXCEPT !.priority = <<>>]>> }

\* Header rows: the expected one, and three that differ from it
Headers ==
    { TICKTICK_HEADER,
      [TICKTICK_HEADER EXCEPT ![1] = "Folder"],
      SubSeq(TICKTICK_HEADER, 1, Len(TICKTICK_HEADER) - 1),
      <<>> }

DecodeErrors == {"none", "preamble", "header", "body"}

\* A record written in Latin-1: the byte of its U+00C5 is not valid UTF-8
Latin1Record ==
    [Plain EXCEPT !.title = <<"U+00C5", "s", "e">>, !.content = <<"a", " ", " ", "b">>]

\* Rows for the short files whose header or encoding is not the usual one.
\* All of a short file is decoded together with its header line.
SampleRows == input_rows(0, 2, <<0, 1>>, 2, Latin1Record)

\* Rows of a long file whose last record is the Latin-1 one: its invalid byte
\* is far beyond what is decoded together with the header line.
LongRows(pad) == input_rows(pad, 1, <<0>>, 1, Latin1Record)

\* A chain of n records: record k is the child of record k - 1
Chain(n) == input_rows(0, n, [k \in 1..n |-> k - 1], 0, Plain)

\* The chains about as deep as the recursion limit allows
DeepChains == {Chain(RecursionLimit - d) : d \in 4..6}

\* Two records with one taskId, the second the child of the first: the id is
\* its own child in child_tasks
SelfChild == <<make_task(Plain, <<"1">>, <<>>), make_task(Plain, <<"1">>, <<"1">>)>>

\* The frames on the stack in convert: called from the top level of a script,
\* or one call further down
CallerFrames == {2, 3}

InitRun(f, prio, stack_frames) ==
    /\ pc = "start"
    /\ file = f
    /\ include_priority = prio
    /\ frames = stack_frames
    /\ tasks = <<>>
    /\ indents = EmptyDict
    /\ chunks = <<>>
    /\ i = 0
    /\ output_files = <<>>
    /\ disk = <<>>
    /\ err = ""

usual_file(rows) == [header |-> TICKTICK_HEADER, decode_error |-> "none", rows |-> rows]

\* The runs start from: every forest of at most MaxTasks records, all plain or
\* with one Blank record; one record of each profile, alone or with a plain
\* child, with and without priority mapping; the large inputs; and every
\* header with every decoding outcome, the invalid byte of "body" being in the
\* last record of a long file; and the chains near the recursion limit and a
\* record that is its own child, under both stack depths.
Init ==
    \/ \E m \in 0..MaxTasks : \E par \in Forests(m) : \E special \in 0..m :
          InitRun(usual_file(input_rows(0, m, par, special, Blank)), TRUE, 2)
    \/ \E m \in 1..2 : \E profile \in Profiles : \E prio \in BOOLEAN :
          InitRun(usual_file(input_rows(0, m, [k \in 1..m |-> k - 1], 1, profile)), prio, 2)
    \/ \E pad \in PadCounts : \E t \in Tails :
          InitRun(usual_file(input_rows(pad, t[1], t[2], t[3], t[4])), TRUE, 2)
    \/ \E h \in Headers : \E d \in DecodeErrors \ {"body"} :
          InitRun([header |-> h, decode_error |-> d, rows |-> SampleRows], TRUE, 2)
    \/ \E rows \in DeepChains \cup {SelfChild} : \E stack_frames \in CallerFrames :
          InitRun(usual_file(rows), TRUE, stack_frames)
    \/ \E h \in Headers : \E pad \in PadCounts :
          InitRun([header |-> h, decode_error |-> "body", rows |-> LongRows(pad)], TRUE, 2)

Spec == Init /\ [][Next]_vars

-----------------------------------------------------------------------------
(* What the claims speak of                                                *)

TaskType == <<"t", "a", "s", "k">>
NoteType == <<"n", "o", "t", "e">>

IsTaskRow(row) == col(row, "TYPE") = TaskType
IsNoteRow(row) == col(row, "TYPE") = NoteType

taskId(task) == at(task, 22)
parentId(task) == at(task, 23)

\* The record's sanitized title is not empty
HasTitle(task) == clean_text(at(task, 2)) # <<>>

\* The chunks whose file has been written (1-based)
Written == DOMAIN output_files

\* The rows of chunk c's file after the header row
DataRows(c) == Tail(disk[output_files[c]])

\* Its Task rows, in order
TaskRows(c) == SelectSeq(DataRows(c), IsTaskRow)

\* The records of chunk c that have a title, in order
Titled(c) == SelectSeq(chunks[c], HasTitle)

HeaderOk == file.header = TICKTICK_HEADER

\* The sort has raised; the write loop has raised
SortFailed == pc = "error" /\ err = "ValueError: not in list"
WriteFailed == pc = "error" /\ err = "ValueError: invalid literal for int()"

Resolved == pc \in {"resolved", "ordered", "chunked", "done"} \/ SortFailed \/ WriteFailed
Ordered == pc \in {"ordered", "chunked", "done"} \/ WriteFailed
Chunked == pc \in {"chunked", "done"} \/ WriteFailed

\* The positions of the input records whose parentId is no record's taskId
Orphans ==
    {k \in DOMAIN file.rows :
        /\ parentId(file.rows[k]) # <<>>
        /\ \A j \in DOMAIN file.rows : taskId(file.rows[j]) # parentId(file.rows[k])}

\* The record of the chunks that has the id of input record k
ChunkRecord(k) ==
    LET c == CHOOSE c \in DOMAIN chunks :
                 \E q \in DOMAIN chunks[c] : taskId(chunks[c][q]) = taskId(file.rows[k])
    IN chunks[c][CHOOSE q \in DOMAIN chunks[c] : taskId(chunks[c][q]) = taskId(file.rows[k])]

-----------------------------------------------------------------------------
\* C1: For every input in which some record has a non-empty parentId that is
\* no record's taskId, the conversion completes and that record is treated as
\* a root: calculate_indents gives it indent level 1 and convert writes its
\* Task row with INDENT 1.
C1_OrphanIsRoot ==
    \A k \in Orphans :
        /\ ~SortFailed
        /\ Resolved =>
              /\ dict_has(indents, taskId(file.rows[k]))
              /\ dict_get(indents, taskId(file.rows[k])) = 1
        /\ (pc = "done" /\ HasTitle(file.rows[k])) =>
              \E c \in Written : \E p \in DOMAIN DataRows(c) :
                  DataRows(c)[p] = create_todoist_task(include_priority, ChunkRecord(k), 1).value

-----------------------------------------------------------------------------
\* C2: For every source record whose sanitized title is empty, convert emits
\* no destination row, neither a Task row nor a Note row, even when its
\* description is not empty: the Task rows of a file are those of the titled
\* records of its chunk, one each and in order, and every Note row comes
\* right after the Task row of the record whose description it carries.
C2_BlankTitleEmitsNothing ==
    \A c \in Written :
        LET rows   == DataRows(c)
            titled == Titled(c)
            \* the number of Task rows among the first p rows
            seen(p) == Len(SelectSeq(SubSeq(rows, 1, p), IsTaskRow))
        IN /\ Len(TaskRows(c)) = Len(titled)
           /\ \A p \in DOMAIN rows : IsTaskRow(rows[p]) \/ IsNoteRow(rows[p])
           /\ \A p \in DOMAIN rows :
                 IsNoteRow(rows[p]) =>
                    /\ p > 1
                    /\ IsTaskRow(rows[p - 1])
                    /\ at(titled[seen(p)], 5) # <<>>
                    /\ col(rows[p], "CONTENT") = clean_text(at(titled[seen(p)], 5))

\* A file has been written for a chunk that holds a record with a blank
\* title and a description.
C2_Witness ==
    \E c \in Written : \E q \in DOMAIN chunks[c] :
        /\ ~HasTitle(chunks[c][q])
        /\ at(chunks[c][q], 5) # <<>>

-----------------------------------------------------------------------------
\* The number of chunks for n records: 1 up to TASKS_PER_PROJECT, else the
\* least number of chunks of TASKS_PER_PROJECT that hold n records.
ExpectedChunks(n) ==
    IF n <= TASKS_PER_PROJECT THEN 1
    ELSE CHOOSE c \in 1..n :
             (c - 1) * TASKS_PER_PROJECT < n /\ n <= c * TASKS_PER_PROJECT

\* C3: split_tasks_into_chunks returns 1 chunk for n <= 300 records and
\* ceil(n/300) chunks for more; no chunk has more than 300 records, every
\* chunk but the last has exactly 300, the chunks in order hold the records
\* of the ordered sequence (by taskId), none lost, repeated or moved; and
\* convert writes exactly one file per chunk.
C3_ChunksPartition ==
    Chunked =>
        LET n == Len(tasks)
        IN /\ Len(chunks) = ExpectedChunks(n)
           /\ \A c \in DOMAIN chunks : Len(chunks[c]) <= TASKS_PER_PROJECT
           /\ \A c \in DOMAIN chunks :
                 c < Len(chunks) => Len(chunks[c]) = TASKS_PER_PROJECT
           /\ (Len(chunks) - 1) * TASKS_PER_PROJECT + Len(chunks[Len(chunks)]) = n
           /\ \A c \in DOMAIN chunks : \A q \in DOMAIN chunks[c] :
                 taskId(chunks[c][q]) = taskId(tasks[(c - 1) * TASKS_PER_PROJECT + q])
           /\ Len(output_files) = i
           /\ Cardinality(DOMAIN disk) = i
           /\ DOMAIN disk = {output_files[c] : c \in 1..i}
           /\ pc = "done" => i = Len(chunks)

\* A run has finished with more than two full chunks' worth of records.
C3_Witness ==
    /\ pc = "done"
    /\ Len(tasks) > 2 * TASKS_PER_PROJECT
    /\ Len(output_files) = ExpectedChunks(Len(tasks))

-----------------------------------------------------------------------------
\* C4: For any record R whose parent P is in the record set, the indent level
\* computed for R is min(indentLevel(P) + 1, 4), with roots at level 1; this
\* holds for every P of the set.
C4_ChildIndent ==
    Resolved =>
        /\ \A k \in DOMAIN file.rows :
              parentId(file.rows[k]) = <<>> =>
                 /\ dict_has(indents, taskId(file.rows[k]))
                 /\ dict_get(indents, taskId(file.rows[k])) = 1
        /\ \A r \in DOMAIN file.rows : \A p \in DOMAIN file.rows :
              parentId(file.rows[r]) = taskId(file.rows[p]) =>
                 /\ dict_has(indents, taskId(file.rows[r]))
                 /\ dict_has(indents, taskId(file.rows[p]))
                 /\ dict_get(indents, taskId(file.rows[r]))
                       = min(dict_get(indents, taskId(file.rows[p])) + 1, 4)

-----------------------------------------------------------------------------
\* The position in `tasks` of input record k
PlaceOf(k) == CHOOSE p \in DOMAIN tasks : tasks[p] = file.rows[k]

\* Input record k is a root of the forest: it names no parent, or no record
\* of the set
IsRoot(k) == parentId(file.rows[k]) = <<>> \/ k \in Orphans

\* C5: After the ORDER step, for every input record set, the record sequence
\* is a pre-order flattening of the forest: every record is there exactly
\* once, every parent comes before its children, roots keep their relative
\* order and the children of one parent keep theirs.
C5_PreOrder ==
    /\ ~SortFailed
    /\ Ordered =>
          /\ Len(tasks) = Len(file.rows)
          /\ \A k \in DOMAIN file.rows :
                Cardinality({p \in DOMAIN tasks : tasks[p] = file.rows[k]}) = 1
          /\ \A a \in DOMAIN tasks : \A b \in DOMAIN tasks :
                parentId(tasks[b]) = taskId(tasks[a]) => a < b
          /\ \A j \in DOMAIN file.rows : \A k \in DOMAIN file.rows :
                (j < k /\ IsRoot(j) /\ IsRoot(k)) => PlaceOf(j) < PlaceOf(k)
          /\ \A j \in DOMAIN file.rows : \A k \in DOMAIN file.rows :
                (j < k /\ ~IsRoot(j) /\ parentId(file.rows[j]) = parentId(file.rows[k]))
                   => PlaceOf(j) < PlaceOf(k)

-----------------------------------------------------------------------------
\* The tag field of a record of chunk c out of n_chunks, from the field before
ExpectedTags(tags, c, n_chunks) ==
    LET tag == <<"p", "a", "r", "t", "_">> \o str(c) \o <<"_", "o", "f", "_">> \o str(n_chunks)
    IN IF tags # <<>> THEN tags \o <<",">> \o tag ELSE tag

\* todoist_import.csv, todoist_import_part{c}.csv
SingleName ==
    << "t", "o", "d", "o", "i", "s", "t", "_", "i", "m", "p", "o", "r", "t",
       ".", "c", "s", "v" >>
PartName(c) ==
    << "t", "o", "d", "o", "i", "s", "t", "_", "i", "m", "p", "o", "r", "t",
       "_", "p", "a", "r", "t" >> \o str(c) \o << ".", "c", "s", "v" >>

\* C6: With more than 300 records, every record of chunk c out of k has the
\* tag part_c_of_k appended to its tag field (after a comma when it has tags,
\* alone when it has none), no other field changes, and chunk c is written to
\* todoist_import_part{c}.csv; with 300 records or fewer no tag field changes
\* and the single file is todoist_import.csv.
C6_ChunkTagsAndNames ==
    Chunked =>
        IF Len(tasks) > TASKS_PER_PROJECT
        THEN /\ \A c \in DOMAIN chunks : \A q \in DOMAIN chunks[c] :
                   LET before == tasks[(c - 1) * TASKS_PER_PROJECT + q]
                   IN chunks[c][q] =
                         [before EXCEPT ![5] = ExpectedTags(before[5], c, Len(chunks))]
             /\ \A c \in Written :
                   /\ output_files[c] = PartName(c)
                   /\ Len(TaskRows(c)) = Len(Titled(c))
        ELSE /\ chunks = <<tasks>>
             /\ \A c \in Written :
                   /\ output_files[c] = SingleName
                   /\ Len(TaskRows(c)) = Len(Titled(c))

\* A run over more than 300 records, one of them with tags, has finished.
C6_Witness ==
    /\ pc = "done"
    /\ Len(tasks) > TASKS_PER_PROJECT
    /\ \E p \in DOMAIN tasks : at(tasks[p], 4) # <<>>
    /\ \A c \in DOMAIN chunks : output_files[c] = PartName(c)

-----------------------------------------------------------------------------
\* C7: If the header row differs from the expected 24-column header, the run
\* aborts with a format error before any output file is written, on the UTF-8
\* path and on the Latin-1 path alike.
C7_HeaderMismatchWritesNothing ==
    ~HeaderOk =>
        /\ pc \in {"start", "fallback", "error"}
        /\ DOMAIN disk = {}
        /\ output_files = <<>>
        /\ pc = "error" =>
              err \in {"ValueError: Invalid CSV file", "ValueError: Could not read file"}

\* The Latin-1 attempt has rejected a header.
C7_Witness ==
    /\ ~HeaderOk
    /\ file.decode_error \in {"preamble", "header"}
    /\ pc = "error"
    /\ err = "ValueError: Could not read file"
    /\ DOMAIN disk = {}

-----------------------------------------------------------------------------
\* C8: In every Task row only non-empty labels are appended to the content as
\* '@label' tokens: the content never holds an '@' with no label after it (an
\* '@' that ends the content or is followed by a space).
C8_NoBareAt ==
    \A c \in Written :
        LET rows == TaskRows(c)
        IN \A q \in DOMAIN rows :
              LET content == col(rows[q], "CONTENT")
              IN \A p \in DOMAIN content :
                    content[p] = "@" => (p < Len(content) /\ content[p + 1] # " ")

-----------------------------------------------------------------------------
\* C9, as claimed: every Task row has an empty DESCRIPTION field, also for a
\* record with a description.
C9_DescriptionEmpty ==
    \A c \in Written :
        LET rows == TaskRows(c)
        IN \A q \in DOMAIN rows : col(rows[q], "DESCRIPTION") = <<>>

\* C9, amended: every Task row carries the sanitized description of its
\* source record in its DESCRIPTION field; the field is empty only when that
\* sanitized description is empty.
C9_DescriptionInline ==
    \A c \in Written :
        LET rows   == TaskRows(c)
            titled == Titled(c)
        IN /\ Len(rows) = Len(titled)
           /\ \A q \in DOMAIN rows :
                 col(rows[q], "DESCRIPTION") = clean_text(at(titled[q], 5))

\* A Task row has been written for a record whose description sanitizes to a
\* text that is not empty and differs from the description as given.
C9_Witness ==
    \E c \in Written :
        LET rows   == TaskRows(c)
            titled == Titled(c)
        IN \E q \in DOMAIN rows :
              /\ col(rows[q], "DESCRIPTION") # <<>>
              /\ col(rows[q], "DESCRIPTION") # at(titled[q], 5)

-----------------------------------------------------------------------------
\* The INDENT of a Task row
IndentOf(row) == int(col(row, "INDENT")).value

\* C10: In every output file the Task rows are well nested: the first has
\* INDENT 1 and every later one has at most the INDENT of the Task row before
\* it plus 1.
C10_WellNested ==
    \A c \in Written :
        LET rows == TaskRows(c)
        IN /\ rows # <<>> => IndentOf(rows[1]) = 1
           /\ \A q \in DOMAIN rows :
                 q > 1 => IndentOf(rows[q]) <= IndentOf(rows[q - 1]) + 1

=============================================================================
